---- MODULE Spec2Model ----
(***************************************************************************)
(* A model of the donordatabase package: the Payment value type            *)
(* (types.py), the Donor ledger (donor.py) and the DonorDatabase registry  *)
(* with its lazily cached views (database.py).                             *)
(*                                                                         *)
(* Amounts are integers (whole dollars); Python's floats are not modelled. *)
(* Python's None is the record None; an insertion-ordered dict is a        *)
(* sequence of its values in key-insertion order.                          *)
(***************************************************************************)
EXTENDS Integers, Sequences, FiniteSets, TLC

\* ------------------------------------------------------------------ bounds
\* Rows of the DataFrame the DonorDatabase constructor iterates over.
MaxRows == 2
\* Distinct user_id values appearing in the rows.
MaxUsers == 2
\* Distinct transaction_id values appearing in rows / add_payment calls.
MaxTid == 2
\* add_payment calls made on the stand-alone Donor.
MaxAdds == 2
\* Largest argument n given to get_top_donors.
MaxN == 1

\* ------------------------------------------------------------ Python values
None == [kind |-> "None"]
Some(v) == [kind |-> "Some", val |-> v]
IsNone(x) == x.kind = "None"

\* A raised exception, as the outcome of a call.
Raise(e) == [kind |-> "raise", exc |-> e]
Return(v) == [kind |-> "return", val |-> v]

Abs(x) == IF x < 0 THEN -x ELSE x

\* ------------------------------------------------------------- types.py
\* class DonorLevel(Enum): the members in definition (= iteration) order,
\* each with its Range(lower, upper).
DonorLevel == <<
    [name |-> "DONORLEVEL_ZERO",  lower |-> 0,      upper |-> 500],
    [name |-> "DONORLEVEL_ONE",   lower |-> 500,    upper |-> 1000],
    [name |-> "DONORLEVEL_TWO",   lower |-> 1000,   upper |-> 2500],
    [name |-> "DONORLEVEL_THREE", lower |-> 2500,   upper |-> 5000],
    [name |-> "DONORLEVEL_FOUR",  lower |-> 5000,   upper |-> 7500],
    [name |-> "DONORLEVEL_FIVE",  lower |-> 7500,   upper |-> 10000],
    [name |-> "DONORLEVEL_SIX",   lower |-> 10000,  upper |-> 25000],
    [name |-> "DONORLEVEL_SEVEN", lower |-> 25000,  upper |-> 50000],
    [name |-> "DONORLEVEL_EIGHT", lower |-> 50000,  upper |-> 75000],
    [name |-> "DONORLEVEL_NINE",  lower |-> 75000,  upper |-> 100000],
    [name |-> "DONORLEVEL_TEN",   lower |-> 100000, upper |-> 250000] >>

\* The Range of a DonorLevel member, by name.
LevelRange(name) ==
    LET i == CHOOSE j \in 1..Len(DonorLevel) : DonorLevel[j].name = name
    IN  DonorLevel[i]

\* Date arguments as a caller can give them: None, a str (the empty string
\* included), or a datetime object.  A datetime is its day number.
DateTexts == {"2024-01-01", "2024-01-02"}
Str(s) == [kind |-> "str", text |-> s]
DateTime(n) == [kind |-> "datetime", day |-> n]

\* datetime.strptime(text, '%Y-%m-%d') on the texts used here; any other
\* non-empty text raises ValueError.
Strptime(text) ==
    CASE text = "2024-01-01" -> DateTime(1)
      [] text = "2024-01-02" -> DateTime(2)

\* utils.string_to_datetime: the empty string gives None.
string_to_datetime(date_str) ==
    IF date_str = "" THEN None ELSE Strptime(date_str)

\* Python truthiness of a (converted) date field: None is falsy, a datetime
\* is truthy.
Truthy(x) == ~IsNone(x)

\* Whether string_to_datetime raises ValueError on this argument.
BadDate(x) == x.kind = "str" /\ x.text # "" /\ x.text \notin DateTexts

\* Payment.__post_init__, first part: str fields are converted.
ConvertDate(x) == IF x.kind = "str" THEN string_to_datetime(x.text) ELSE x

\* Payment.__post_init__: whether the 'neither a valid actual_date nor a valid
\* posted_date' warning is issued (on the converted fields).
MissingDateWarning(actual, posted) == ~Truthy(actual) /\ Truthy(posted)

\* Payment.__post_init__: the defaulting of the two date fields.
DefaultPostedWrong(actual, posted) == posted
DefaultActual(actual, posted) == IF Truthy(actual) THEN actual ELSE posted
DefaultPosted(actual, posted) == IF Truthy(posted) THEN posted ELSE actual

\* Payment(...): the dataclass after __post_init__.  Only the fields the
\* rest of the package reads are kept; the name/address snapshot is dropped.
Payment(transaction_id, user_id, contribution_type, actual_date, posted_date, amount) ==
    LET a == ConvertDate(actual_date)
        p == ConvertDate(posted_date)
    IN  [transaction_id    |-> transaction_id,
         user_id           |-> user_id,
         contribution_type |-> contribution_type,
         actual_date       |-> DefaultActual(a, p),
         posted_date       |-> DefaultPosted(a, p),
         amount            |-> amount]

PaymentWarns(actual_date, posted_date) ==
    IF MissingDateWarning(ConvertDate(actual_date), ConvertDate(posted_date))
    THEN {"NoValidDate"} ELSE {}

\* ------------------------------------------------------------- donor.py
\* The keys of Donor._contributions.
ContributionTypes == {"Payment", "Donation", "Refund"}

\* A DonorLevel member as a value.
Level(name) == [kind |-> "DonorLevel", name |-> name]

\* Donor.__init__: no payments, no cached level, zero running totals.  The
\* name, email and address fields play no part in what follows.
NewDonor(user_id) ==
    [id            |-> user_id,
     payments      |-> <<>>,
     donor_level   |-> None,
     contributions |-> [Payment |-> 0, Donation |-> 0, Refund |-> 0]]

\* The total as it would be if refunds were left out of the sum.
DonorTotalNoRefund(d) == d.contributions.Payment + d.contributions.Donation

\* Donor.total_contributions: sum(self._contributions.values()).
DonorTotal(d) ==
    d.contributions.Payment + d.contributions.Donation + d.contributions.Refund

\* Donor.num_payments: len(self._payments).
NumPayments(d) == Len(d.payments)

\* The loop of Donor.level: the first member, in definition order, whose
\* upper bound exceeds abs(total); with no break the field keeps its None.
RECURSIVE LevelScan(_, _)
LevelScan(total, i) ==
    IF i > Len(DonorLevel) THEN None
    ELSE IF Abs(total) < DonorLevel[i].upper THEN Level(DonorLevel[i].name)
    ELSE LevelScan(total, i + 1)

\* Donor.level: the donor after the property was read (the cache filled in
\* when it was None); the value returned is its donor_level.
DonorAfterLevel(d) ==
    IF IsNone(d.donor_level)
    THEN [d EXCEPT !.donor_level = LevelScan(DonorTotal(d), 1)]
    ELSE d

\* dict[key] = value on an insertion-ordered dict of Payments keyed by
\* transaction_id: an existing key keeps its position.
DictPut(dict, p) ==
    IF \E i \in 1..Len(dict) : dict[i].transaction_id = p.transaction_id
    THEN [i \in 1..Len(dict) |->
            IF dict[i].transaction_id = p.transaction_id THEN p ELSE dict[i]]
    ELSE Append(dict, p)

DictHas(dict, tid) == \E i \in 1..Len(dict) : dict[i].transaction_id = tid

\* dict[key] for a key the dict has.
DictGet(dict, tid) ==
    dict[CHOOSE i \in 1..Len(dict) : dict[i].transaction_id = tid]

\* Donor.add_payment without its identity test.
DonorAddPaymentUnchecked(d, p) ==
    [d EXCEPT !.payments = DictPut(@, p),
              !.contributions[p.contribution_type] = @ + p.amount]

\* Donor.add_payment with its identity test inverted.
DonorAddPaymentInverted(d, p) ==
    IF d.id # p.user_id
    THEN [d EXCEPT !.payments = DictPut(@, p),
                   !.contributions[p.contribution_type] = @ + p.amount]
    ELSE d

\* Donor.add_payment: the donor after the call, p being the Payment built
\* from the arguments.  A foreign user_id only warns.
DonorAddPayment(d, p) ==
    IF d.id = p.user_id
    THEN [d EXCEPT !.payments = DictPut(@, p),
                   !.contributions[p.contribution_type] = @ + p.amount]
    ELSE d

\* Donor.add_payment: the value returned.
AddPaymentResult(d, p) == IF d.id = p.user_id THEN Some(p) ELSE None

\* Donor.add_payment: the warnings issued (Payment's own included; the
\* Payment is only constructed when the ids match).
AddPaymentWarns(d, user_id, actual_date, posted_date) ==
    IF d.id = user_id
    THEN PaymentWarns(actual_date, posted_date)
    ELSE {"IdentityMismatch"}

\* The loop of Donor.largest_payment / largest_donation over the payments
\* from position i on, for one contribution_type: max_amount starts at 0.0
\* and a payment replaces the one held only when its amount is greater.
RECURSIVE LargestScan(_, _, _, _, _)
LargestScan(ps, type, i, max_amount, held) ==
    IF i > Len(ps) THEN held
    ELSE IF ps[i].contribution_type = type /\ ps[i].amount > max_amount
         THEN LargestScan(ps, type, i + 1, ps[i].amount, Some(ps[i]))
         ELSE LargestScan(ps, type, i + 1, max_amount, held)

\* Donor.largest_payment
LargestPayment(d) == LargestScan(d.payments, "Payment", 1, 0, None)

\* Donor.largest_donation
LargestDonation(d) == LargestScan(d.payments, "Donation", 1, 0, None)

\* Donor.largest_contribution: max() of the two .amount reads, either of
\* which raises AttributeError on None.
LargestContribution(d) ==
    IF IsNone(LargestPayment(d)) \/ IsNone(LargestDonation(d))
    THEN Raise("AttributeError")
    ELSE Return(IF LargestPayment(d).val.amount >= LargestDonation(d).val.amount
                THEN LargestPayment(d).val.amount
                ELSE LargestDonation(d).val.amount)

\* ------------------------------------------------------------- database.py
\* Position of the Donor with this user_id in the _donors dict (0: absent).
DonorIndex(ds, user_id) ==
    IF \E i \in 1..Len(ds) : ds[i].id = user_id
    THEN CHOOSE i \in 1..Len(ds) : ds[i].id = user_id
    ELSE 0

\* self._donors[user_id]
DonorOf(ds, user_id) == ds[DonorIndex(ds, user_id)]

\* DonorDatabase.__init__, lines 63-77: the row's donor is created on the
\* first appearance of its user_id.
WithDonor(ds, user_id) ==
    IF DonorIndex(ds, user_id) = 0 THEN Append(ds, NewDonor(user_id)) ELSE ds

\* DonorDatabase.__init__, lines 79-90: add_payment on the row's donor.
DonorsAfterRow(ds, p) ==
    LET ds1 == WithDonor(ds, p.user_id)
        k   == DonorIndex(ds1, p.user_id)
    IN  [ds1 EXCEPT ![k] = DonorAddPayment(ds1[k], p)]

\* The flat dict as it would be if the store of line 103 were skipped for a
\* transaction_id that is already a key.
PaymentsAfterRowKeepFirst(ds, ps, p) ==
    IF DictHas(ps, p.transaction_id) THEN ps ELSE Append(ps, p)

\* DonorDatabase.__init__, lines 91-103: the flat dict takes the returned
\* Payment, whether or not its transaction_id is already a key.
PaymentsAfterRow(ds, ps, p) ==
    LET ds1 == WithDonor(ds, p.user_id)
        res == AddPaymentResult(DonorOf(ds1, p.user_id), p)
    IN  IF IsNone(res) THEN ps ELSE DictPut(ps, res.val)

\* sorted(pairs, key=first, reverse=True) with ties in the opposite of their
\* original order (what reversing an ascending sort would give).
InsertReverseUnstable(acc, x) ==
    SelectSeq(acc, LAMBDA y : y[1] > x[1]) \o <<x>>
        \o SelectSeq(acc, LAMBDA y : y[1] <= x[1])

\* One step of a stable descending sort of <<key, value>> pairs: x goes
\* after every pair whose key is at least its own.
InsertReverse(acc, x) ==
    SelectSeq(acc, LAMBDA y : y[1] >= x[1]) \o <<x>>
        \o SelectSeq(acc, LAMBDA y : y[1] < x[1])

\* sorted(pairs, key=first, reverse=True): stable, equal keys keep their
\* original order.
RECURSIVE SortedReverse(_)
SortedReverse(pairs) ==
    IF pairs = <<>> THEN <<>>
    ELSE InsertReverse(SortedReverse(SubSeq(pairs, 1, Len(pairs) - 1)),
                       pairs[Len(pairs)])

\* One step of a stable ascending sort of <<key, value>> pairs.
InsertAscending(acc, x) ==
    SelectSeq(acc, LAMBDA y : y[1] <= x[1]) \o <<x>>
        \o SelectSeq(acc, LAMBDA y : y[1] > x[1])

\* sorted(pairs, key=first): stable.
RECURSIVE Sorted(_)
Sorted(pairs) ==
    IF pairs = <<>> THEN <<>>
    ELSE InsertAscending(Sorted(SubSeq(pairs, 1, Len(pairs) - 1)),
                         pairs[Len(pairs)])

\* DonorDatabase._create_donors_by_contribution: the user_ids ordered by
\* total_contributions, largest first (the OrderedDict's keys, each bound
\* to its Donor).
CreateDonorsByContribution(ds) ==
    LET pairs  == [i \in 1..Len(ds) |-> <<DonorTotal(ds[i]), ds[i].id>>]
        sorted == SortedReverse(pairs)
    IN  [i \in 1..Len(sorted) |-> sorted[i][2]]

\* The loop of DonorDatabase.top_donor over donors i..Len(ds): best is the
\* donor held so far (None at the start), max its total (0.0 at the start).
RECURSIVE TopDonorScan(_, _, _, _)
TopDonorScan(ds, i, max_contribution, best) ==
    IF i > Len(ds) THEN best
    ELSE IF DonorTotal(ds[i]) > max_contribution
         THEN TopDonorScan(ds, i + 1, DonorTotal(ds[i]), Some(ds[i].id))
         ELSE TopDonorScan(ds, i + 1, max_contribution, best)

\* The loop of DonorDatabase.total_contributions.
RECURSIVE SumTotals(_, _)
SumTotals(ds, i) ==
    IF i > Len(ds) THEN 0 ELSE DonorTotal(ds[i]) + SumTotals(ds, i + 1)

\* The loop of get_top_donors from position idx (0-based) on: the entry is
\* appended unless idx > n, which ends the loop.
RECURSIVE TopDonorsLoop(_, _, _, _)
TopDonorsLoop(ranked, idx, n, top_donors) ==
    IF idx >= Len(ranked) THEN top_donors
    ELSE IF idx > n THEN top_donors
    ELSE TopDonorsLoop(ranked, idx + 1, n, Append(top_donors, ranked[idx + 1]))

\* Every donor after its level property was read once.
DonorsAfterLevels(ds) == [i \in 1..Len(ds) |-> DonorAfterLevel(ds[i])]

\* _donors_by_level[lvl] = [donor] for a new key, .append(donor) otherwise.
\* The dict is the sequence of its items in key-insertion order; a key is a
\* DonorLevel member or whatever else donor.level returned.
GroupPut(groups, lvl, id) ==
    IF \E j \in 1..Len(groups) : groups[j].level = lvl
    THEN [j \in 1..Len(groups) |->
            IF groups[j].level = lvl
            THEN [groups[j] EXCEPT !.donors = Append(@, id)]
            ELSE groups[j]]
    ELSE Append(groups, [level |-> lvl, donors |-> <<id>>])

\* The grouping loop of get_donors_by_level over the ranked donors.
RECURSIVE GroupByLevel(_, _, _, _)
GroupByLevel(ds, ranked, i, groups) ==
    IF i > Len(ranked) THEN groups
    ELSE GroupByLevel(ds, ranked, i + 1,
            GroupPut(groups,
                     DonorAfterLevel(DonorOf(ds, ranked[i])).donor_level,
                     ranked[i]))

\* key in dict, dict[key]
GroupHas(groups, lvl) == \E j \in 1..Len(groups) : groups[j].level = lvl
GroupGet(groups, lvl) ==
    groups[CHOOSE j \in 1..Len(groups) : groups[j].level = lvl]

\* get_donors_by_level, lines 206-209: the list under the key when the
\* argument is a key of the dict, the whole dict otherwise.
DonorsByLevelResult(groups, level) ==
    IF GroupHas(groups, level)
    THEN [kind |-> "list", donors |-> GroupGet(groups, level).donors]
    ELSE [kind |-> "dict", items |-> groups]

RECURSIVE SumSeq(_)
SumSeq(xs) == IF xs = <<>> THEN 0 ELSE Head(xs) + SumSeq(Tail(xs))

RECURSIVE Concat(_)
Concat(xss) == IF xss = <<>> THEN <<>> ELSE Head(xss) \o Concat(Tail(xss))

SeqMax(xs) == CHOOSE m \in { xs[i] : i \in 1..Len(xs) } :
                 \A i \in 1..Len(xs) : xs[i] <= m
SeqMin(xs) == CHOOSE m \in { xs[i] : i \in 1..Len(xs) } :
                 \A i \in 1..Len(xs) : m <= xs[i]

\* get_donor_level_stats, lines 224-244: the DonorLevelStats of one group.
\* mean, std and median are real-valued functions of payments and are left
\* out; max and min stand for the numpy reductions, which raise ValueError
\* on an empty array.
LevelStats(ds, group) ==
    LET members == [k \in 1..Len(group.donors) |-> DonorOf(ds, group.donors[k])]
        amounts == Concat([k \in 1..Len(members) |->
                      [j \in 1..Len(members[k].payments) |->
                          members[k].payments[j].amount]])
    IN  [level      |-> group.level,
         n_donors   |-> Len(group.donors),
         n_payments |-> SumSeq([k \in 1..Len(members) |-> NumPayments(members[k])]),
         total      |-> SumSeq([k \in 1..Len(members) |-> DonorTotal(members[k])]),
         payments   |-> amounts]

\* Whether payments.max() raises for some group.
StatsRaise(ds, groups) ==
    \E j \in 1..Len(groups) : LevelStats(ds, groups[j]).payments = <<>>

\* The dict of DonorLevelStats, in the groups' order.
AllLevelStats(ds, groups) ==
    [j \in 1..Len(groups) |->
        LET st == LevelStats(ds, groups[j])
        IN  [level |-> st.level, n_donors |-> st.n_donors,
             n_payments |-> st.n_payments, total |-> st.total,
             payments |-> st.payments,
             max |-> SeqMax(st.payments), min |-> SeqMin(st.payments)]]

\* get_donor_level_stats, lines 247-250.
LevelStatsResult(stats, level) ==
    IF GroupHas(stats, level)
    THEN [kind |-> "stats", stats |-> GroupGet(stats, level)]
    ELSE [kind |-> "dict", items |-> stats]

\* _create_payments_by_date: sorted() compares posted_date values, and a
\* None among two or more of them raises TypeError.
SortByDateRaises(ps) ==
    Len(ps) >= 2 /\ \E i \in 1..Len(ps) : IsNone(ps[i].posted_date)

\* _create_payments_by_date: the flat dict's Payments, oldest first.
CreatePaymentsByDate(ps) ==
    IF Len(ps) <= 1 THEN ps
    ELSE LET pairs  == [i \in 1..Len(ps) |-> <<ps[i].posted_date.day, ps[i]>>]
             sorted == Sorted(pairs)
         IN  [i \in 1..Len(sorted) |-> sorted[i][2]]

\* ------------------------------------------------------------------ inputs
\* What a row of the DataFrame carries besides its two identifiers: the
\* type, the amount and the two date cells (strings, empty when absent).
RowData ==
    { [type |-> "Payment",  amount |-> 600,    actual_date |-> Str("2024-01-01"), posted_date |-> Str("")],
      [type |-> "Donation", amount |-> 200,    actual_date |-> Str(""),           posted_date |-> Str("2024-01-02")],
      [type |-> "Refund",   amount |-> -100,   actual_date |-> Str("2024-01-02"), posted_date |-> Str("2024-01-01")],
      [type |-> "Payment",  amount |-> 50,     actual_date |-> Str(""),           posted_date |-> Str("")],
      [type |-> "Donation", amount |-> 250000, actual_date |-> Str("2024-01-01"), posted_date |-> Str("2024-01-01")] }
\* Amounts and date pairs <<actual_date, posted_date>> of the add_payment
\* calls on the stand-alone Donor (a Donor never reads the dates of its
\* payments), and the amounts of the direct Payment(...) calls.
DonorAmounts == {-100, 0, 600, 250000}
DonorDates == { <<Str("2024-01-01"), Str("")>> }
PaymentAmounts == {-100, 600}
\* Date arguments of a direct Payment(...) call.
DateArgs == { None, Str(""), Str("2024-01-01"), Str("2024-01-02"),
              Str("yesterday"), DateTime(1), DateTime(2) }

\* ------------------------------------------------------------------- state
VARIABLES
    op,                      \* the last call made: its name and arguments
    ret,                     \* its outcome: Return(value) or Raise(exception)
    warned,                  \* the warnings it issued
    donor,                   \* a stand-alone Donor object
    nAdds,                   \* add_payment calls made on it
    phase,                   \* "init": DonorDatabase.__init__ is iterating over the rows; "ready": constructed
    nrows,                   \* rows iterated over so far
    donors,                  \* DonorDatabase._donors
    payments,                \* DonorDatabase._payments
    top_donor,               \* DonorDatabase._top_donor
    total_contributions,     \* DonorDatabase._total_contributions
    donors_by_contribution,  \* DonorDatabase._donors_by_contribution
    donors_by_level,         \* DonorDatabase._donors_by_level
    payments_by_date_list,   \* DonorDatabase._payments_by_date_list
    donor_level_stats        \* DonorDatabase._donor_level_stats

callVars == <<op, ret, warned>>
donorVars == <<donor, nAdds>>
cacheVars == <<top_donor, total_contributions, donors_by_contribution, donors_by_level, payments_by_date_list, donor_level_stats>>
dbVars == <<phase, nrows, donors, payments, cacheVars>>
vars == <<callVars, donorVars, dbVars>>

\* Before any call: a fresh Donor(user_id=1), and a DonorDatabase whose
\* constructor has reached its loop over the rows.
Init ==
    /\ op = [name |-> "none"]
    /\ ret = Return(None)
    /\ warned = {}
    /\ donor = NewDonor(1)
    /\ nAdds = 0
    /\ phase = "init"
    /\ nrows = 0
    /\ donors = <<>>
    /\ payments = <<>>
    /\ top_donor = None
    /\ total_contributions = None
    /\ donors_by_contribution = None
    /\ donors_by_level = None
    /\ payments_by_date_list = None
    /\ donor_level_stats = None

\* ------------------------------------------------------- Payment(...) calls
\* Payment(transaction_id, user_id, contribution_type, actual_date,
\* posted_date, ..., amount): ValueError from strptime, or the Payment.
PaymentCall(tid, uid, type, actual, posted, amount) ==
    /\ op' = [name |-> "Payment", transaction_id |-> tid, user_id |-> uid,
              contribution_type |-> type, actual_date |-> actual,
              posted_date |-> posted, amount |-> amount]
    /\ IF BadDate(actual) \/ BadDate(posted)
       THEN ret' = Raise("ValueError") /\ warned' = {}
       ELSE /\ ret' = Return(Payment(tid, uid, type, actual, posted, amount))
            /\ warned' = PaymentWarns(actual, posted)
    /\ UNCHANGED <<donorVars, dbVars>>

NextPayment ==
    \E tid \in 1..MaxTid, type \in ContributionTypes,
       actual \in DateArgs, posted \in DateArgs, amount \in PaymentAmounts :
        PaymentCall(tid, 1, type, actual, posted, amount)

SpecPayment == Init /\ [][NextPayment]_vars

\* ------------------------------------------------- calls on a single Donor
\* donor.add_payment(transaction_id, user_id, contribution_type,
\* actual_date, posted_date, ..., amount)
AddPaymentCall(tid, uid, type, dates, amount) ==
    /\ nAdds < MaxAdds
    /\ LET p == Payment(tid, uid, type, dates[1], dates[2], amount)
       IN  /\ donor' = DonorAddPayment(donor, p)
           /\ ret' = Return(AddPaymentResult(donor, p))
           /\ warned' = AddPaymentWarns(donor, uid, dates[1], dates[2])
    /\ nAdds' = nAdds + 1
    /\ op' = [name |-> "add_payment", transaction_id |-> tid, user_id |-> uid]
    /\ UNCHANGED dbVars

\* donor.level
LevelCall ==
    /\ donor' = DonorAfterLevel(donor)
    /\ ret' = Return(donor'.donor_level)
    /\ op' = [name |-> "level"]
    /\ warned' = {}
    /\ UNCHANGED <<nAdds, dbVars>>

\* donor.largest_payment
LargestPaymentCall ==
    /\ ret' = Return(LargestPayment(donor))
    /\ op' = [name |-> "largest_payment"]
    /\ warned' = {}
    /\ UNCHANGED <<donorVars, dbVars>>

\* donor.largest_donation
LargestDonationCall ==
    /\ ret' = Return(LargestDonation(donor))
    /\ op' = [name |-> "largest_donation"]
    /\ warned' = {}
    /\ UNCHANGED <<donorVars, dbVars>>

\* donor.largest_contribution
LargestContributionCall ==
    /\ ret' = LargestContribution(donor)
    /\ op' = [name |-> "largest_contribution"]
    /\ warned' = {}
    /\ UNCHANGED <<donorVars, dbVars>>

NextDonor ==
    \/ \E tid \in 1..MaxTid, uid \in 1..MaxUsers, type \in ContributionTypes,
          dates \in DonorDates, amount \in DonorAmounts :
            AddPaymentCall(tid, uid, type, dates, amount)
    \/ LevelCall
    \/ LargestPaymentCall
    \/ LargestDonationCall
    \/ LargestContributionCall

SpecDonor == Init /\ [][NextDonor]_vars

\* ------------------------------------------------------------ DonorDatabase
\* Identifiers are only ever compared for equality, so the rows introduce
\* new user_ids and transaction_ids in increasing order.
RowUserIds == 1..(IF Len(donors) < MaxUsers THEN Len(donors) + 1 ELSE MaxUsers)
RowTids == 1..(IF Len(payments) < MaxTid THEN Len(payments) + 1 ELSE MaxTid)

\* One iteration of the loop of DonorDatabase.__init__ (lines 62-103) on a
\* row of the DataFrame.
ProcessRow(tid, uid, row) ==
    /\ phase = "init"
    /\ LET p == Payment(tid, uid, row.type, row.actual_date, row.posted_date, row.amount)
       IN  /\ donors' = DonorsAfterRow(donors, p)
           /\ payments' = PaymentsAfterRow(donors, payments, p)
           /\ warned' =
                  AddPaymentWarns(DonorOf(WithDonor(donors, uid), uid), uid,
                                  row.actual_date, row.posted_date) \cup
                  (IF /\ ~IsNone(AddPaymentResult(DonorOf(WithDonor(donors, uid), uid), p))
                      /\ DictHas(payments, tid)
                   THEN {"DuplicateTransaction"} ELSE {})
    /\ nrows' = nrows + 1
    /\ op' = [name |-> "row", transaction_id |-> tid, user_id |-> uid, row |-> row]
    /\ ret' = Return(None)
    /\ UNCHANGED <<phase, cacheVars, donorVars>>

\* The loop's iteration on one of the rows of a DataFrame of at most
\* MaxRows rows.
IngestRow(tid, uid, row) ==
    /\ nrows < MaxRows
    /\ ProcessRow(tid, uid, row)

\* The loop is over and the constructor returns (lines 104-117): every
\* cache field is None.
FinishInit ==
    /\ phase = "init"
    /\ phase' = "ready"
    /\ op' = [name |-> "__init__"]
    /\ ret' = Return(None)
    /\ warned' = {}
    /\ UNCHANGED <<nrows, donors, payments, cacheVars, donorVars>>

\* db.top_donor
TopDonorCall ==
    /\ phase = "ready"
    /\ top_donor' = IF IsNone(top_donor)
                    THEN TopDonorScan(donors, 1, 0, top_donor)
                    ELSE top_donor
    /\ ret' = Return(top_donor')
    /\ op' = [name |-> "top_donor"]
    /\ warned' = {}
    /\ UNCHANGED <<phase, nrows, donors, payments, total_contributions, donors_by_contribution, donors_by_level, payments_by_date_list, donor_level_stats, donorVars>>

\* db.total_contributions
TotalContributionsCall ==
    /\ phase = "ready"
    /\ total_contributions' = IF IsNone(total_contributions)
                              THEN Some(SumTotals(donors, 1))
                              ELSE total_contributions
    /\ ret' = Return(total_contributions'.val)
    /\ op' = [name |-> "total_contributions"]
    /\ warned' = {}
    /\ UNCHANGED <<phase, nrows, donors, payments, top_donor, donors_by_contribution, donors_by_level, payments_by_date_list, donor_level_stats, donorVars>>

\* The outcome of reading _payments_by_date_list[idx].posted_date after
\* `if self._payments_by_date_list is None: self._create_payments_by_date()`;
\* last tells the index -1 from the index 0.
DateListAfter == 
    IF ~IsNone(payments_by_date_list) THEN payments_by_date_list
    ELSE IF SortByDateRaises(payments) THEN None
    ELSE Some(CreatePaymentsByDate(payments))

EndPayment(last) ==
    IF IsNone(payments_by_date_list) /\ SortByDateRaises(payments)
    THEN Raise("TypeError")
    ELSE IF DateListAfter.val = <<>> THEN Raise("IndexError")
    ELSE Return(DateListAfter.val[IF last THEN Len(DateListAfter.val) ELSE 1].posted_date)

\* db.earliest_payment
EarliestPaymentCall ==
    /\ phase = "ready"
    /\ payments_by_date_list' = DateListAfter
    /\ ret' = EndPayment(FALSE)
    /\ op' = [name |-> "earliest_payment"]
    /\ warned' = {}
    /\ UNCHANGED <<phase, nrows, donors, payments, top_donor, total_contributions, donors_by_contribution, donors_by_level, donor_level_stats, donorVars>>

\* db.latest_payment
LatestPaymentCall ==
    /\ phase = "ready"
    /\ payments_by_date_list' = DateListAfter
    /\ ret' = EndPayment(TRUE)
    /\ op' = [name |-> "latest_payment"]
    /\ warned' = {}
    /\ UNCHANGED <<phase, nrows, donors, payments, top_donor, total_contributions, donors_by_contribution, donors_by_level, donor_level_stats, donorVars>>

\* db.timespan: latest_payment - earliest_payment; an exception of either
\* read propagates, and None - None raises TypeError.
TimespanCall ==
    /\ phase = "ready"
    /\ payments_by_date_list' = DateListAfter
    /\ ret' = IF EndPayment(TRUE).kind = "raise" THEN EndPayment(TRUE)
              ELSE IF IsNone(EndPayment(TRUE).val) \/ IsNone(EndPayment(FALSE).val)
                   THEN Raise("TypeError")
              ELSE Return([kind |-> "timedelta",
                           days |-> EndPayment(TRUE).val.day - EndPayment(FALSE).val.day])
    /\ op' = [name |-> "timespan"]
    /\ warned' = {}
    /\ UNCHANGED <<phase, nrows, donors, payments, top_donor, total_contributions, donors_by_contribution, donors_by_level, donor_level_stats, donorVars>>

\* `if self._donors_by_contribution is None: self._create_donors_by_contribution()`
RankingAfter ==
    IF IsNone(donors_by_contribution)
    THEN Some(CreateDonorsByContribution(donors))
    ELSE donors_by_contribution

\* db.get_top_donors(n)
GetTopDonorsCall(n) ==
    /\ phase = "ready"
    /\ donors_by_contribution' = RankingAfter
    /\ ret' = Return(TopDonorsLoop(RankingAfter.val, 0, n, <<>>))
    /\ op' = [name |-> "get_top_donors", n |-> n]
    /\ warned' = {}
    /\ UNCHANGED <<phase, nrows, donors, payments, top_donor, total_contributions, donors_by_level, payments_by_date_list, donor_level_stats, donorVars>>

\* get_donors_by_level, lines 193-204: the caches after the call.
GroupsAfter ==
    IF IsNone(donors_by_level)
    THEN Some(GroupByLevel(donors, RankingAfter.val, 1, <<>>))
    ELSE donors_by_level

\* ... and the donors, whose level property the grouping loop read.
DonorsAfterGrouping ==
    IF IsNone(donors_by_level) THEN DonorsAfterLevels(donors) ELSE donors

\* db.get_donors_by_level(level)
GetDonorsByLevelCall(level) ==
    /\ phase = "ready"
    /\ donors_by_contribution' =
          IF IsNone(donors_by_level) THEN RankingAfter ELSE donors_by_contribution
    /\ donors_by_level' = GroupsAfter
    /\ donors' = DonorsAfterGrouping
    /\ ret' = Return(DonorsByLevelResult(GroupsAfter.val, level))
    /\ op' = [name |-> "get_donors_by_level", level |-> level]
    /\ warned' = {}
    /\ UNCHANGED <<phase, nrows, payments, top_donor, total_contributions, payments_by_date_list, donor_level_stats, donorVars>>

\* get_donor_level_stats, lines 221-245: self.get_donors_by_level().items()
\* raises AttributeError when the call returned a list; payments.max()
\* raises ValueError on an empty array.
StatsOutcome ==
    IF ~IsNone(donor_level_stats) THEN Return(donor_level_stats.val)
    ELSE IF DonorsByLevelResult(GroupsAfter.val, None).kind = "list"
         THEN Raise("AttributeError")
    ELSE IF StatsRaise(DonorsAfterGrouping, GroupsAfter.val)
         THEN Raise("ValueError")
    ELSE Return(AllLevelStats(DonorsAfterGrouping, GroupsAfter.val))

\* db.get_donor_level_stats(level)
GetDonorLevelStatsCall(level) ==
    /\ phase = "ready"
    /\ IF IsNone(donor_level_stats)
       THEN /\ donors_by_contribution' =
                  IF IsNone(donors_by_level) THEN RankingAfter ELSE donors_by_contribution
            /\ donors_by_level' = GroupsAfter
            /\ donors' = DonorsAfterGrouping
       ELSE UNCHANGED <<donors_by_contribution, donors_by_level, donors>>
    /\ donor_level_stats' =
          IF StatsOutcome.kind = "raise" THEN donor_level_stats ELSE Some(StatsOutcome.val)
    /\ ret' = IF StatsOutcome.kind = "raise" THEN StatsOutcome
              ELSE Return(LevelStatsResult(StatsOutcome.val, level))
    /\ op' = [name |-> "get_donor_level_stats", level |-> level]
    /\ warned' = {}
    /\ UNCHANGED <<phase, nrows, payments, top_donor, total_contributions, payments_by_date_list, donorVars>>

\* The level arguments of the two by-level queries: the default None, two
\* levels the rows can populate and one they cannot.
LevelArgs == { None, Level("DONORLEVEL_ZERO"), Level("DONORLEVEL_ONE"), Level("DONORLEVEL_TEN") }

\* The constructor and the queries on contributions: the top donor, the
\* grand total and the ranking.
Next ==
    \/ \E tid \in RowTids, uid \in RowUserIds, row \in RowData :
            IngestRow(tid, uid, row)
    \/ FinishInit
    \/ TopDonorCall
    \/ TotalContributionsCall
    \/ \E n \in 0..MaxN : GetTopDonorsCall(n)

Spec == Init /\ [][Next]_vars

\* The constructor and the queries by donor level.
NextLevels ==
    \/ \E tid \in RowTids, uid \in RowUserIds, row \in RowData :
            IngestRow(tid, uid, row)
    \/ FinishInit
    \/ TotalContributionsCall
    \/ \E level \in LevelArgs : GetDonorsByLevelCall(level)
    \/ \E level \in LevelArgs : GetDonorLevelStatsCall(level)

SpecLevels == Init /\ [][NextLevels]_vars

\* The constructor and the date queries.
NextDates ==
    \/ \E tid \in RowTids, uid \in RowUserIds, row \in RowData :
            IngestRow(tid, uid, row)
    \/ FinishInit
    \/ TotalContributionsCall
    \/ EarliestPaymentCall
    \/ LatestPaymentCall
    \/ TimespanCall

SpecDates == Init /\ [][NextDates]_vars

\* A DataFrame of four rows: three of contributor 1 (a payment, a donation
\* and a refund) and one of contributor 2.
ScenarioRows ==
    << [transaction_id |-> 1, user_id |-> 1,
        row |-> [type |-> "Payment",  amount |-> 600,  actual_date |-> Str("2024-01-01"), posted_date |-> Str("")]],
       [transaction_id |-> 2, user_id |-> 1,
        row |-> [type |-> "Donation", amount |-> 200,  actual_date |-> Str(""),           posted_date |-> Str("2024-01-02")]],
       [transaction_id |-> 3, user_id |-> 1,
        row |-> [type |-> "Refund",   amount |-> -100, actual_date |-> Str("2024-01-02"), posted_date |-> Str("2024-01-01")]],
       [transaction_id |-> 4, user_id |-> 2,
        row |-> [type |-> "Payment",  amount |-> 50,   actual_date |-> Str(""),           posted_date |-> Str("")]] >>

\* The loop's iteration on the next row of that DataFrame.
ScenarioRow ==
    /\ nrows < Len(ScenarioRows)
    /\ ProcessRow(ScenarioRows[nrows + 1].transaction_id,
                  ScenarioRows[nrows + 1].user_id,
                  ScenarioRows[nrows + 1].row)

\* The constructor on (a prefix of) the four rows, and the queries on
\* totals, ranking and levels.
NextScenario ==
    \/ ScenarioRow
    \/ FinishInit
    \/ TopDonorCall
    \/ TotalContributionsCall
    \/ \E n \in 0..MaxN : GetTopDonorsCall(n)
    \/ \E level \in LevelArgs : GetDonorsByLevelCall(level)

SpecScenario == Init /\ [][NextScenario]_vars

\* =================================================================== claims
\* Helpers of the statements below.
RangeContains(level, total) ==
    /\ level.kind = "DonorLevel"
    /\ LevelRange(level.name).lower <= Abs(total)
    /\ Abs(total) < LevelRange(level.name).upper

HeldAmounts(d) == [i \in 1..Len(d.payments) |-> d.payments[i].amount]

Min(a, b) == IF a < b THEN a ELSE b

\* C1: whenever Donor.level classifies a total t (the cached level being
\* None when the property is read), it returns one of the eleven DonorLevel
\* members, and that member's range satisfies lower <= |t| < upper, for
\* every t, |t| >= 250000 included.
C1_LevelContainsTotal ==
    [][ (op'.name = "level" /\ IsNone(donor.donor_level))
          => RangeContains(ret'.val, DonorTotal(donor)) ]_vars

\* C2: after any sequence of add_payment calls on one Donor,
\* total_contributions equals the sum of the amounts of the transactions
\* currently held in its payments mapping (a re-added transaction_id counts
\* once, with its latest amount).
C2_TotalIsSumOfHeld ==
    DonorTotal(donor) = SumSeq(HeldAmounts(donor))

\* C3: get_top_donors(n) returns exactly n donors when the database holds at
\* least n (all of them when it holds fewer): the first n entries of the
\* ranking by total contribution.
C3_TopDonorsExactlyN ==
    op.name = "get_top_donors"
      => ret.val = SubSeq(donors_by_contribution.val, 1, Min(op.n, Len(donors)))

\* C4: the ranking built by _create_donors_by_contribution holds every donor
\* exactly once, in non-increasing order of total_contributions, and two
\* donors with the same total appear in their registry insertion order.
C4_RankingStable ==
    ~IsNone(donors_by_contribution) =>
      LET r == donors_by_contribution.val
      IN  /\ Len(r) = Len(donors)
          /\ \A i \in 1..Len(donors) : \E j \in 1..Len(r) : r[j] = donors[i].id
          /\ \A i, j \in 1..Len(r) :
               i < j =>
                 /\ DonorTotal(DonorOf(donors, r[i])) >= DonorTotal(DonorOf(donors, r[j]))
                 /\ DonorTotal(DonorOf(donors, r[i])) = DonorTotal(DonorOf(donors, r[j]))
                      => DonorIndex(donors, r[i]) < DonorIndex(donors, r[j])

\* C4's case: a ranking was built over a registry in which two donors have
\* the same total.
C4_Witness ==
    /\ ~IsNone(donors_by_contribution)
    /\ \E i, j \in 1..Len(donors) :
         i < j /\ DonorTotal(donors[i]) = DonorTotal(donors[j])

\* C5: for every registry, get_donor_level_stats() returns the per-level
\* statistics, whose totals sum to the database's total_contributions and
\* whose n_donors sum to the number of donors, donors whose total lies
\* outside every level included.
C5_StatsReconcile ==
    (op.name = "get_donor_level_stats" /\ IsNone(op.level)) =>
      /\ ret.kind = "return"
      /\ ret.val.kind = "dict"
      /\ SumSeq([j \in 1..Len(ret.val.items) |-> ret.val.items[j].total])
           = SumTotals(donors, 1)
      /\ SumSeq([j \in 1..Len(ret.val.items) |-> ret.val.items[j].n_donors])
           = Len(donors)

\* C6: on a registry built from zero rows, total_contributions returns 0
\* and earliest_payment, latest_payment and timespan fail with the defined
\* NoTransactions error.
C6_EmptyRegistry ==
    (phase = "ready" /\ nrows = 0) =>
      /\ op.name = "total_contributions" => ret = Return(0)
      /\ op.name \in {"earliest_payment", "latest_payment", "timespan"}
           => ret = Raise("NoTransactions")

\* C7: a Payment constructed with exactly one of actual_date and posted_date
\* present holds the present one's value in both fields; with both present
\* neither field is changed.
C7_DateDefaulting ==
    (op.name = "Payment" /\ ret.kind = "return") =>
      LET a == ConvertDate(op.actual_date)
          p == ConvertDate(op.posted_date)
      IN  /\ (~IsNone(a) /\ IsNone(p))
               => ret.val.actual_date = a /\ ret.val.posted_date = a
          /\ (IsNone(a) /\ ~IsNone(p))
               => ret.val.actual_date = p /\ ret.val.posted_date = p
          /\ (~IsNone(a) /\ ~IsNone(p))
               => ret.val.actual_date = a /\ ret.val.posted_date = p

\* C7's case: a Payment was constructed from a nominal date only and both
\* of its date fields hold that date.
C7_Witness ==
    /\ op.name = "Payment"
    /\ op.actual_date = Str("2024-01-01")
    /\ op.posted_date \in {None, Str("")}
    /\ ret.kind = "return"
    /\ ret.val.actual_date = DateTime(1)
    /\ ret.val.posted_date = DateTime(1)

\* C8: an add_payment call whose user_id differs from the donor's id returns
\* no Payment and leaves the payments mapping, the three running totals and
\* the cached level as they were.
C8_MismatchNoMutation ==
    [][ (op'.name = "add_payment" /\ op'.user_id # donor.id)
          => (ret' = Return(None) /\ donor' = donor) ]_vars

\* C8's case: a foreign add_payment was made on a donor that holds payments
\* and a cached level.
C8_Witness ==
    /\ op.name = "add_payment"
    /\ op.user_id # donor.id
    /\ donor.payments # <<>>
    /\ ~IsNone(donor.donor_level)
    /\ "IdentityMismatch" \in warned

\* C9: after any interleaving of add_payment and level calls on one Donor,
\* level returns the classification of the donor's current
\* total_contributions.
C9_LevelIsCurrent ==
    op.name = "level" => ret.val = LevelScan(DonorTotal(donor), 1)

\* C10: on a non-empty registry top_donor returns a donor whose total is the
\* maximum over all donors, the first such donor in insertion order, also
\* when every total is zero or negative.
C10_TopDonorIsMax ==
    (op.name = "top_donor" /\ donors # <<>>) =>
      /\ ret.val.kind = "Some"
      /\ \A i \in 1..Len(donors) :
           DonorTotal(donors[i]) <= DonorTotal(DonorOf(donors, ret.val.val))
      /\ \A i \in 1..Len(donors) :
           DonorTotal(donors[i]) = DonorTotal(DonorOf(donors, ret.val.val))
             => DonorIndex(donors, ret.val.val) <= i

\* The payments of one contribution_type a donor holds, in insertion order.
OfType(d, type) == SelectSeq(d.payments, LAMBDA p : p.contribution_type = type)

\* The first payment of maximum amount in a non-empty sequence.
FirstMax(ps) ==
    ps[CHOOSE i \in 1..Len(ps) :
          /\ \A j \in 1..Len(ps) : ps[j].amount <= ps[i].amount
          /\ \A j \in 1..(i - 1) : ps[j].amount < ps[i].amount]

\* C11: largest_contribution returns the maximum of the largest payment's
\* and the largest donation's amount, fails with NoContributionsRecorded
\* when the donor has neither, and gives a value (no error) to a donor that
\* has only one of the two.
C11_LargestContribution ==
    op.name = "largest_contribution" =>
      LET lp == LargestPayment(donor)
          ld == LargestDonation(donor)
      IN  /\ (IsNone(lp) /\ IsNone(ld)) => ret = Raise("NoContributionsRecorded")
          /\ (~IsNone(lp) /\ IsNone(ld)) => ret = Return(lp.val.amount)
          /\ (IsNone(lp) /\ ~IsNone(ld)) => ret = Return(ld.val.amount)
          /\ (~IsNone(lp) /\ ~IsNone(ld)) =>
               ret = Return(IF lp.val.amount >= ld.val.amount
                            THEN lp.val.amount ELSE ld.val.amount)

\* C15: largest_payment and largest_donation return the first-inserted
\* transaction of maximum amount among the donor's transactions of that
\* category whenever one exists, whatever its amount, and None only when
\* none exists.
C15_LargestOfCategory ==
    /\ op.name = "largest_payment" =>
         ret.val = (IF OfType(donor, "Payment") = <<>> THEN None
                    ELSE Some(FirstMax(OfType(donor, "Payment"))))
    /\ op.name = "largest_donation" =>
         ret.val = (IF OfType(donor, "Donation") = <<>> THEN None
                    ELSE Some(FirstMax(OfType(donor, "Donation"))))

\* C17: constructing a Payment issues the 'neither a valid actual_date nor a
\* valid posted_date' warning exactly when both dates are absent, and never
\* when at least one date is present.
C17_MissingDateFlagged ==
    (op.name = "Payment" /\ ret.kind = "return") =>
      ("NoValidDate" \in warned <=>
         (IsNone(ConvertDate(op.actual_date)) /\ IsNone(ConvertDate(op.posted_date))))

\* The level the donor with this user_id reports.
LevelOfDonor(id) == DonorAfterLevel(DonorOf(donors, id)).donor_level

\* The donors at one level, in ranking order.
RankedAtLevel(level) ==
    SelectSeq(CreateDonorsByContribution(donors), LAMBDA id : LevelOfDonor(id) = level)

\* C12: get_donors_by_level(level) with a level given returns the list of
\* the donors at that level, for every DonorLevel value: an empty list for
\* a level without donors, never the level-to-donors dictionary.
C12_ListForEveryLevel ==
    (op.name = "get_donors_by_level" /\ ~IsNone(op.level)) =>
      /\ ret.val.kind = "list"
      /\ ret.val.donors = RankedAtLevel(op.level)

\* C16: get_donors_by_level() partitions the donors: every donor is in
\* exactly one group, the key of its group is its level, and each group
\* lists its donors in ranking order, totals non-increasing.
C16_GroupsPartitionDonors ==
    (op.name = "get_donors_by_level" /\ IsNone(op.level)) =>
      /\ ret.val.kind = "dict"
      /\ LET items == ret.val.items
         IN  /\ \A i \in 1..Len(donors) :
                  Cardinality({ jk \in { <<j, k>> \in (1..Len(items)) \X (1..Len(donors)) :
                                           k <= Len(items[j].donors) } :
                                   items[jk[1]].donors[jk[2]] = donors[i].id }) = 1
             /\ \A j \in 1..Len(items) :
                  /\ items[j].donors = RankedAtLevel(items[j].level)
                  /\ \A k \in 1..(Len(items[j].donors) - 1) :
                       DonorTotal(DonorOf(donors, items[j].donors[k])) >=
                         DonorTotal(DonorOf(donors, items[j].donors[k + 1]))

\* The running totals of the donor with this user_id, zero before the
\* donor exists.
TotalsOf(ds, user_id) ==
    IF DonorIndex(ds, user_id) = 0 THEN NewDonor(user_id).contributions
    ELSE DonorOf(ds, user_id).contributions

\* C14: a duplicate transaction_id does not stop ingestion, and the flat
\* map is last-write-wins.  Every row is processed without an error; the
\* flat map then holds, under the row's transaction_id, the Payment built
\* from that row and keeps every other entry; the row's amount is added to
\* the running total of its contribution_type on the row's donor, whether
\* or not the transaction_id was seen before, and no other total changes.
C14_DuplicatesLastWriteWins ==
    [][ op'.name = "row" =>
          LET tid == op'.transaction_id
              uid == op'.user_id
              row == op'.row
              p   == Payment(tid, uid, row.type, row.actual_date, row.posted_date, row.amount)
          IN  /\ ret' = Return(None)
              /\ nrows' = nrows + 1
              /\ DictHas(payments', tid) /\ DictGet(payments', tid) = p
              /\ Len(payments') = Len(payments) + (IF DictHas(payments, tid) THEN 0 ELSE 1)
              /\ \A k \in 1..Len(payments) :
                   payments[k].transaction_id # tid =>
                     DictGet(payments', payments[k].transaction_id) = payments[k]
              /\ TotalsOf(donors', uid) =
                   [TotalsOf(donors, uid) EXCEPT ![row.type] = @ + row.amount]
              /\ \A i \in 1..Len(donors) :
                   donors[i].id # uid => donors'[i] = donors[i]
      ]_vars

\* A row repeating the only transaction_id seen so far has been ingested:
\* the flat map has one entry, the row's, and the donor's total is not that
\* entry's amount alone.
C14_Witness ==
    /\ op.name = "row"
    /\ "DuplicateTransaction" \in warned
    /\ nrows = 2
    /\ Len(payments) = 1
    /\ payments[1].amount = op.row.amount
    /\ Len(donors) = 1
    /\ DonorTotal(donors[1]) # payments[1].amount

\* C18: no row is rejected by its ledger during construction.  The row
\* just ingested is held by its donor and by the flat map and no identity
\* warning was issued; every donor holds at least one transaction; every
\* transaction_id of the flat map is held by the donor whose user_id the
\* flat entry records; every group built by get_donors_by_level() has a
\* donor, and transactions, so get_donor_level_stats() never fails on an
\* empty array.
C18_NoRowRejected ==
    /\ "IdentityMismatch" \notin warned
    /\ op.name = "row" =>
         /\ DictHas(payments, op.transaction_id)
         /\ DonorIndex(donors, op.user_id) # 0
         /\ DictHas(DonorOf(donors, op.user_id).payments, op.transaction_id)
    /\ \A i \in 1..Len(donors) : NumPayments(donors[i]) >= 1
    /\ \A k \in 1..Len(payments) :
         /\ DonorIndex(donors, payments[k].user_id) # 0
         /\ DictHas(DonorOf(donors, payments[k].user_id).payments,
                    payments[k].transaction_id)
    /\ ~IsNone(donors_by_level) =>
         \A j \in 1..Len(donors_by_level.val) :
           /\ donors_by_level.val[j].donors # <<>>
           /\ LevelStats(donors, donors_by_level.val[j]).payments # <<>>
    /\ op.name = "get_donor_level_stats" => ret # Raise("ValueError")

\* get_donor_level_stats() has returned on a registry of two donors, in
\* two groups, whose rows carried the same transaction_id: the flat map has
\* one entry and both donors hold its transaction_id.
C18_Witness ==
    /\ op.name = "get_donor_level_stats"
    /\ ret.kind = "return"
    /\ Len(donors) = 2
    /\ Len(payments) = 1
    /\ Len(donors_by_level.val) = 2
    /\ \A i \in 1..2 : DictHas(donors[i].payments, payments[1].transaction_id)

\* C13: after the four rows Payment 600, Donation 200, Refund -100 of
\* contributor 1 and Payment 50 of contributor 2, in this order,
\* contributor 1 has total 700 and level DONORLEVEL_ONE [500, 1000),
\* contributor 2 has total 50 and level DONORLEVEL_ZERO, total_contributions
\* is 750, top_donor is contributor 1 and the ranking is [1, 2].
C13_Scenario ==
    (phase = "ready" /\ nrows = Len(ScenarioRows)) =>
      /\ Len(donors) = 2
      /\ DonorTotal(DonorOf(donors, 1)) = 700
      /\ LevelOfDonor(1) = Level("DONORLEVEL_ONE")
      /\ LevelRange("DONORLEVEL_ONE").lower = 500
      /\ LevelRange("DONORLEVEL_ONE").upper = 1000
      /\ DonorTotal(DonorOf(donors, 2)) = 50
      /\ LevelOfDonor(2) = Level("DONORLEVEL_ZERO")
      /\ op.name = "total_contributions" => ret = Return(750)
      /\ op.name = "top_donor" => ret = Return(Some(1))
      /\ ~IsNone(donors_by_contribution) => donors_by_contribution.val = <<1, 2>>
      /\ (op.name = "get_donors_by_level" /\ op.level = Level("DONORLEVEL_ONE")) =>
           ret = Return([kind |-> "list", donors |-> <<1>>])
      /\ (op.name = "get_donors_by_level" /\ op.level = Level("DONORLEVEL_ZERO")) =>
           ret = Return([kind |-> "list", donors |-> <<2>>])

\* All four rows ingested, the grand total, the ranking and the groups
\* computed, and top_donor just read.
C13_Witness ==
    /\ phase = "ready"
    /\ nrows = Len(ScenarioRows)
    /\ op.name = "top_donor"
    /\ ret = Return(Some(1))
    /\ total_contributions = Some(750)
    /\ donors_by_contribution = Some(<<1, 2>>)
    /\ ~IsNone(donors_by_level)
====
